---- MODULE Spec2Model ----
(***************************************************************************)
(* llmr: walk the current directory, keep the text files that fit three   *)
(* limits, print a tree, the kept contents, the skip messages and an      *)
(* optional report.  The module follows src/src/main.rs line by line.     *)
(*                                                                         *)
(* The file system is the environment.  Each entry the walker yields      *)
(* carries what the file system would answer for it: the result of        *)
(* metadata(), and the bytes of the file.  The length metadata() reports  *)
(* and the number of bytes a later read returns are separate answers of   *)
(* the file system (the code never compares them).  Whether an open or a  *)
(* read fails is decided when the call is made.                           *)
(***************************************************************************)
EXTENDS Integers, Sequences, FiniteSets, TLC

\* ------------------------------------------------------------- bounds
\* Entries the walker yields after the root.
MaxEntries == 2
\* Stand-in for 2^64: u64 values are 0 .. WordModulus-1 and u64 addition
\* is taken modulo WordModulus.
WordModulus == 4
\* Largest --num-files value tried.
MaxFilesArg == 2

\* Longest of the short file images given to is_text_file on its own.
MaxShortLen == 2

\* ---------------------------------------------------- program constants
\* let mut buffer = [0u8; 1024];
BUFFER_LEN == 1024

U64 == 0 .. (WordModulus - 1)

Min(a, b) == IF a <= b THEN a ELSE b

\* --------------------------------------------------------- file images
Rep(b, n) == [i \in 1 .. n |-> b]

\* The byte contents a file of the walked tree can have.
Images ==
    { << 65, 10 >>,                       \* "A\n"
      << 255 >>,                          \* not UTF-8, no control byte
      << >>,                              \* empty file
      Rep(65, BUFFER_LEN - 1) \o << 0 >> } \* NUL is the last sampled byte

\* What metadata(path) can answer: an error, or a length.
Metadatas == [ok : {TRUE}, len : U64] \cup {[ok |-> FALSE, len |-> 0]}

\* Outcome of the open and read system calls of one function call.
IoOutcomes == {"ok", "open_failed", "read_failed"}

Ok(v) == [ok |-> TRUE, value |-> v]
Err(e) == [ok |-> FALSE, value |-> e]

\* ------------------------------------------------------- is_text_file
\* Mutant: the whole file is examined, not the first buffer.
bytes_read_whole(bytes) == Len(bytes)

\* Mutant: the test starts above NUL.
IsControlByte_skips_nul(byte) ==
    byte > 0 /\ byte < 32 /\ byte # 9 /\ byte # 10 /\ byte # 13

\* byte < 0x20 && byte != 0x09 && byte != 0x0a && byte != 0x0d
IsControlByte(byte) == byte < 32 /\ byte # 9 /\ byte # 10 /\ byte # 13

\* file.read(&mut buffer) on a regular file: the bytes read.
bytes_read(bytes) == Min(Len(bytes), BUFFER_LEN)

is_text_file(bytes, io) ==
    IF io # "ok"
    THEN Err(io)
    ELSE Ok(~ \E i \in 1 .. bytes_read(bytes) : IsControlByte(bytes[i]))

\* --------------------------------------------------- read_file_content
IsContinuation(b) == b \in 128 .. 191

\* Length of the UTF-8 sequence a byte starts, 0 if it starts none.
Utf8Width(b) ==
    IF b < 128 THEN 1
    ELSE IF b \in 194 .. 223 THEN 2
    ELSE IF b \in 224 .. 239 THEN 3
    ELSE IF b \in 240 .. 244 THEN 4
    ELSE 0

\* The range the second byte of a sequence must lie in.
Utf8Second(lead, b) ==
    IF lead = 224 THEN b \in 160 .. 191
    ELSE IF lead = 237 THEN b \in 128 .. 159
    ELSE IF lead = 240 THEN b \in 144 .. 191
    ELSE IF lead = 244 THEN b \in 128 .. 143
    ELSE b \in 128 .. 191

\* read_to_string accepts exactly the well-formed UTF-8 byte strings:
\* every byte that is no continuation byte starts a sequence that is
\* complete, and is followed by the start of the next one.
ValidUtf8(bytes) ==
    /\ Len(bytes) > 0 => ~ IsContinuation(bytes[1])
    /\ \A i \in 1 .. Len(bytes) :
          ~ IsContinuation(bytes[i]) =>
             LET w == Utf8Width(bytes[i]) IN
             /\ w > 0
             /\ i + w - 1 <= Len(bytes)
             /\ \A k \in 1 .. (w - 1) : IsContinuation(bytes[i + k])
             /\ w >= 2 => Utf8Second(bytes[i], bytes[i + 1])
             /\ i + w <= Len(bytes) => ~ IsContinuation(bytes[i + w])

\* A String is its UTF-8 bytes.
read_file_content(bytes, io) ==
    IF io # "ok" THEN Err(io)
    ELSE IF ~ ValidUtf8(bytes) THEN Err("invalid_utf8")
    ELSE Ok(bytes)

\* What the two functions answer for each file image when no system call
\* fails.
Classified == [b \in Images |-> is_text_file(b, "ok")]
Contents == [b \in Images |-> read_file_content(b, "ok")]

\* is_text_file(path) and read_file_content(path) on an entry.
Classify(e, io) == IF io = "ok" THEN Classified[e.bytes]
                   ELSE is_text_file(e.bytes, io)
Read(e, io) == IF io = "ok" THEN Contents[e.bytes]
               ELSE read_file_content(e.bytes, io)

\* --------------------------------------------------------------- state
VARIABLES
    args,            \* Args: report, max_file_size, max_total_size, max_files
    overflow_checks, \* build profile, "unknown" until an addition overflows:
                     \* "on" panics on u64 overflow, "off" wraps
    total_files,     \* let mut total_files: usize
    total_size,      \* let mut total_size: u64
    file_contents,   \* Vec<(PathBuf, String)>
    tree_structure,  \* String, kept as its sequence of lines
    errors,          \* Vec<String>
    entry,           \* the entry the loop body last ran on
    visited,         \* entries the walker has yielded so far
    pc,              \* where main is
    failure,         \* the context of the Err main returned, "" if none
    output,          \* what has been written to stdout and stderr, in order
    admitted_sizes,  \* history: file_size of each pushed file_contents item
    verdict          \* what a call of is_text_file studied on its own
                     \* returned, << >> before it returns

vars == << args, overflow_checks, total_files, total_size, file_contents,
           tree_structure, errors, entry, visited, pc, failure,
           output, admitted_sizes, verdict >>

accumulators == << total_files, total_size, file_contents, tree_structure,
                   errors, admitted_sizes >>

Args == [report : BOOLEAN, max_file_size : U64, max_total_size : U64,
         max_files : 0 .. MaxFilesArg]

\* What path.file_name().and_then(OsStr::to_str) can be, as bytes: "a",
\* "x " which ends in a space, and " " which is nothing but a space.
FileNames == {<< 97 >>, << 120, 32 >>, << 32 >>}

NoEntry == [path |-> 0, kind |-> "none", depth |-> 0,
            metadata |-> [ok |-> FALSE, len |-> 0], bytes |-> << >>,
            file_name |-> << >>]

\* The current directory when it has no file name (it is "/"):
\* unwrap_or(".").
RootEntry == [path |-> 0, kind |-> "root", depth |-> 0,
              metadata |-> [ok |-> TRUE, len |-> 0], bytes |-> << >>,
              file_name |-> << 46 >>]

\* The current directory, without a file name or with one, " ".
RootEntries == {[RootEntry EXCEPT !.file_name = n] :
                   n \in {RootEntry.file_name, << 32 >>}}

\* The walk is depth first, parents before children: the entry after a
\* directory (or the root) may lie one level below it, the entry after
\* anything else lies at its level or above.
Depths == 1 .. (IF entry.kind \in {"root", "dir"}
                THEN entry.depth + 1 ELSE entry.depth)

\* A directory, or an entry that is neither a directory nor a regular file
\* (a broken symlink, a socket ...), yielded as the p-th entry.
PlainEntries(p, kind) ==
    [path : {p}, kind : {kind}, depth : Depths,
     metadata : {[ok |-> TRUE, len |-> 0]}, bytes : {<< >>},
     file_name : FileNames]

\* A regular file yielded as the p-th entry.
FileEntries(p) ==
    [path : {p}, kind : {"file"}, depth : Depths,
     metadata : Metadatas, bytes : Images, file_name : FileNames]

\* ------------------------------------------------------------- limits
\* total_size + file_size on u64.
Add64(a, b) == (a + b) % WordModulus

Overflows(a, b) == a + b >= WordModulus

\* Mutant: the count check is off by one (> for >=).
admit_count_off_by_one(files, size, file_size, a, checks) ==
    IF files > a.max_files THEN "file-count-limit"
    ELSE IF checks = "on" /\ Overflows(size, file_size) THEN "panic"
    ELSE IF Add64(size, file_size) > a.max_total_size THEN "total-size-limit"
    ELSE IF file_size > a.max_file_size THEN "per-file-size-limit"
    ELSE "Admit"

\* Mutant: the per-file check compares with the wrong ceiling.
admit_wrong_ceiling(files, size, file_size, a, checks) ==
    IF files >= a.max_files THEN "file-count-limit"
    ELSE IF checks = "on" /\ Overflows(size, file_size) THEN "panic"
    ELSE IF Add64(size, file_size) > a.max_total_size THEN "total-size-limit"
    ELSE IF file_size > a.max_total_size THEN "per-file-size-limit"
    ELSE "Admit"

\* The three limit checks of the loop body, in the order of the code.  With
\* overflow checks compiled in (checks = "on"), an overflowing
\* total_size + file_size panics before the comparison is made.
admit(files, size, file_size, a, checks) ==
    IF files >= a.max_files THEN "file-count-limit"
    ELSE IF checks = "on" /\ Overflows(size, file_size) THEN "panic"
    ELSE IF Add64(size, file_size) > a.max_total_size THEN "total-size-limit"
    ELSE IF file_size > a.max_file_size THEN "per-file-size-limit"
    ELSE "Admit"

\* The build profiles the run can still have once the limit checks have run
\* on a file of this size: evaluating an overflowing sum settles it.
Profiles(file_size) ==
    IF /\ overflow_checks = "unknown"
       /\ total_files < args.max_files
       /\ Overflows(total_size, file_size)
    THEN {"on", "off"}
    ELSE {overflow_checks}

\* The file passes the three limit checks, which settles the build profile
\* if the sum overflowed.
PassesLimits(e) ==
    \E m \in Profiles(e.metadata.len) :
       /\ admit(total_files, total_size, e.metadata.len, args, m) = "Admit"
       /\ overflow_checks' = m

LimitReasons == {"file-count-limit", "total-size-limit", "per-file-size-limit"}

\* ---------------------------------------------------------- tree lines
\* The two connectors of the tree, U+2514 and U+251C followed by two
\* U+2500 and a space, written in ASCII.
CORNER == "\\-- "
TEE == "|-- "

\* "    ".repeat(indent_level - 1), the connector, the file name, the
\* suffix; name tells which entry the line was drawn for.
TreeLine(e, connector, suffix) ==
    [indent |-> IF e.kind = "root" THEN 0 ELSE e.depth - 1,
     connector |-> connector, name |-> e.path, file_name |-> e.file_name,
     suffix |-> suffix]

SkipRecord(e, reason) == [path |-> e.path, reason |-> reason]

\* ---------------------------------------------------------------- Init
\* Args::parse() has returned the arguments.
Init ==
    /\ args \in Args
    /\ overflow_checks = "unknown"
    /\ total_files = 0
    /\ total_size = 0
    /\ file_contents = << >>
    /\ tree_structure = << >>
    /\ errors = << >>
    /\ entry = NoEntry
    /\ visited = 0
    /\ pc = "start"
    /\ failure = ""
    /\ output = << >>
    /\ admitted_sizes = << >>
    /\ verdict = << >>

\* std::env::current_dir() answers; the walker is built.
CurrentDir ==
    /\ pc = "start"
    /\ pc' = "walk"
    /\ UNCHANGED << args, verdict, overflow_checks, accumulators, entry,
                    visited, failure, output >>

\* std::env::current_dir().context(..)? fails: main returns the error.
CurrentDirError ==
    /\ pc = "start"
    /\ pc' = "failed"
    /\ failure' = "Failed to get current directory"
    /\ UNCHANGED << args, verdict, overflow_checks, accumulators, entry,
                    visited, output >>

\* The loop takes the next entry of the walker.
Take(e) ==
    /\ pc = "walk"
    /\ entry' = e
    /\ visited' = visited + 1
    /\ UNCHANGED << args, verdict, output >>

\* main returns Err(context), or panics: nothing more is done.
Abort(e, how, context) ==
    /\ Take(e)
    /\ pc' = how
    /\ failure' = context
    /\ UNCHANGED accumulators

\* continue, or the end of the loop body.
Continue == pc' = "walk" /\ UNCHANGED failure

\* ------------------------------------------------------------ the loop
\* entry.with_context(..)? : the walker yields an error.
WalkError ==
    /\ pc = "walk"
    /\ visited <= MaxEntries
    /\ pc' = "failed"
    /\ failure' = "Error during directory traversal"
    /\ UNCHANGED << args, verdict, overflow_checks, accumulators,
                    entry, visited,
                    output >>

\* if path == current_dir : the root, which the walker yields first.
VisitRoot ==
    /\ visited = 0
    /\ \E e \in RootEntries :
          /\ Take(e)
          /\ tree_structure' =
                Append(tree_structure, TreeLine(e, CORNER, ""))
    /\ UNCHANGED overflow_checks
    /\ Continue
    /\ UNCHANGED << total_files, total_size, file_contents, errors,
                    admitted_sizes >>

\* Mutant: a directory met once the file count is reached is rejected like
\* a file.
VisitDirectory_limited ==
    /\ visited \in 1 .. MaxEntries
    /\ \E e \in PlainEntries(visited, "dir") :
          /\ Take(e)
          /\ IF total_files >= args.max_files
             THEN /\ errors' = Append(errors,
                                      SkipRecord(e, "file-count-limit"))
                  /\ UNCHANGED tree_structure
             ELSE /\ tree_structure' =
                        Append(tree_structure, TreeLine(e, TEE, ""))
                  /\ UNCHANGED errors
    /\ UNCHANGED overflow_checks
    /\ Continue
    /\ UNCHANGED << total_files, total_size, file_contents, admitted_sizes >>

\* if entry.file_type().map_or(false, |ft| ft.is_dir())
VisitDirectory ==
    /\ visited \in 1 .. MaxEntries
    /\ \E e \in PlainEntries(visited, "dir") :
          /\ Take(e)
          /\ tree_structure' =
                Append(tree_structure, TreeLine(e, TEE, ""))
    /\ UNCHANGED overflow_checks
    /\ Continue
    /\ UNCHANGED << total_files, total_size, file_contents, errors,
                    admitted_sizes >>

\* Neither branch is taken: not a directory, and path.is_file() is false.
VisitOther ==
    /\ visited \in 1 .. MaxEntries
    /\ \E e \in PlainEntries(visited, "other") : Take(e)
    /\ UNCHANGED overflow_checks
    /\ Continue
    /\ UNCHANGED accumulators

\* metadata(path).with_context(..)? fails: main returns the error.
FileMetadataError ==
    /\ visited \in 1 .. MaxEntries
    /\ \E e \in FileEntries(visited) :
          /\ ~ e.metadata.ok
          /\ Abort(e, "failed", "Failed to get metadata for file")
    /\ UNCHANGED overflow_checks

\* Mutant: a rejected file also gets a tree line.
FileOverLimit_draws_line ==
    /\ visited \in 1 .. MaxEntries
    /\ \E e \in FileEntries(visited) :
          /\ e.metadata.ok
          /\ \E m \in Profiles(e.metadata.len) :
                LET d == admit(total_files, total_size, e.metadata.len,
                               args, m) IN
                /\ d \in LimitReasons
                /\ overflow_checks' = m
                /\ Take(e)
                /\ errors' = Append(errors, SkipRecord(e, d))
                /\ tree_structure' =
                      Append(tree_structure, TreeLine(e, CORNER, ""))
    /\ Continue
    /\ UNCHANGED << total_files, total_size, file_contents, admitted_sizes >>

\* Mutant: once a file has been turned away for its size, every later file
\* is turned away for the total size.
FileOverLimit_absorbing ==
    /\ visited \in 1 .. MaxEntries
    /\ \E e \in FileEntries(visited) :
          /\ e.metadata.ok
          /\ \E m \in Profiles(e.metadata.len) :
                LET d == IF \E j \in DOMAIN errors :
                               errors[j].reason \in {"total-size-limit",
                                                     "per-file-size-limit"}
                         THEN "total-size-limit"
                         ELSE admit(total_files, total_size, e.metadata.len,
                                    args, m) IN
                /\ d \in LimitReasons
                /\ overflow_checks' = m
                /\ Take(e)
                /\ errors' = Append(errors, SkipRecord(e, d))
    /\ Continue
    /\ UNCHANGED << total_files, total_size, file_contents, tree_structure,
                    admitted_sizes >>

\* One of the three limit checks pushes a message and continues.
FileOverLimit ==
    /\ visited \in 1 .. MaxEntries
    /\ \E e \in FileEntries(visited) :
          /\ e.metadata.ok
          /\ \E m \in Profiles(e.metadata.len) :
                LET d == admit(total_files, total_size, e.metadata.len,
                               args, m) IN
                /\ d \in LimitReasons
                /\ overflow_checks' = m
                /\ Take(e)
                /\ errors' = Append(errors, SkipRecord(e, d))
    /\ Continue
    /\ UNCHANGED << total_files, total_size, file_contents, tree_structure,
                    admitted_sizes >>

\* total_size + file_size overflows in a build that checks overflow.
FileSizePanic ==
    /\ visited \in 1 .. MaxEntries
    /\ \E e \in FileEntries(visited) :
          /\ e.metadata.ok
          /\ \E m \in Profiles(e.metadata.len) :
                /\ admit(total_files, total_size, e.metadata.len, args, m)
                      = "panic"
                /\ overflow_checks' = m
                /\ Abort(e, "panicked", "attempt to add with overflow")

\* is_text_file(path).with_context(..)? fails: main returns the error.
FileClassifyError ==
    /\ visited \in 1 .. MaxEntries
    /\ \E e \in FileEntries(visited) :
          /\ e.metadata.ok
          /\ PassesLimits(e)
          /\ \E io \in IoOutcomes :
                /\ ~ Classify(e, io).ok
                /\ Abort(e, "failed", "Error checking if file is text")

\* Mutant: the annotation of a binary file is left out.
FileNonText_plain_line ==
    /\ visited \in 1 .. MaxEntries
    /\ \E e \in FileEntries(visited) :
          /\ e.metadata.ok
          /\ PassesLimits(e)
          /\ Classify(e, "ok") = Ok(FALSE)
          /\ Take(e)
          /\ tree_structure' =
                Append(tree_structure, TreeLine(e, CORNER, ""))
    /\ Continue
    /\ UNCHANGED << total_files, total_size, file_contents, errors,
                    admitted_sizes >>

\* Mutant: a file that is not text is counted among the analyzed files.
FileNonText_counted ==
    /\ visited \in 1 .. MaxEntries
    /\ \E e \in FileEntries(visited) :
          /\ e.metadata.ok
          /\ PassesLimits(e)
          /\ Classify(e, "ok") = Ok(FALSE)
          /\ Take(e)
          /\ tree_structure' =
                Append(tree_structure,
                       TreeLine(e, CORNER, " [Non-text file]"))
    /\ total_files' = total_files + 1
    /\ Continue
    /\ UNCHANGED << total_size, file_contents, errors, admitted_sizes >>

\* is_text_file is Ok(false): the tree line with the annotation.
FileNonText ==
    /\ visited \in 1 .. MaxEntries
    /\ \E e \in FileEntries(visited) :
          /\ e.metadata.ok
          /\ PassesLimits(e)
          /\ Classify(e, "ok") = Ok(FALSE)
          /\ Take(e)
          /\ tree_structure' =
                Append(tree_structure,
                       TreeLine(e, CORNER, " [Non-text file]"))
    /\ Continue
    /\ UNCHANGED << total_files, total_size, file_contents, errors,
                    admitted_sizes >>

\* Mutant: the counters are incremented before the content is read.
FileReadError_commits ==
    /\ visited \in 1 .. MaxEntries
    /\ \E e \in FileEntries(visited) :
          /\ e.metadata.ok
          /\ PassesLimits(e)
          /\ Classify(e, "ok") = Ok(TRUE)
          /\ \E io \in IoOutcomes :
                /\ ~ Read(e, io).ok
                /\ Take(e)
                /\ errors' = Append(errors, SkipRecord(e, "read-error"))
                /\ total_size' = Add64(total_size, e.metadata.len)
                /\ total_files' = total_files + 1
    /\ Continue
    /\ UNCHANGED << file_contents, tree_structure, admitted_sizes >>

\* is_text_file is Ok(true) and read_file_content is Err(e).
FileReadError ==
    /\ visited \in 1 .. MaxEntries
    /\ \E e \in FileEntries(visited) :
          /\ e.metadata.ok
          /\ PassesLimits(e)
          /\ Classify(e, "ok") = Ok(TRUE)
          /\ \E io \in IoOutcomes :
                /\ ~ Read(e, io).ok
                /\ Take(e)
                /\ errors' = Append(errors, SkipRecord(e, "read-error"))
    /\ Continue
    /\ UNCHANGED << total_files, total_size, file_contents, tree_structure,
                    admitted_sizes >>

\* is_text_file is Ok(true) and read_file_content is Ok(content).
FileAdmitted ==
    /\ visited \in 1 .. MaxEntries
    /\ \E e \in FileEntries(visited) :
          /\ e.metadata.ok
          /\ PassesLimits(e)
          /\ Classify(e, "ok") = Ok(TRUE)
          /\ LET r == Read(e, "ok") IN
             /\ r.ok
             /\ Take(e)
             /\ file_contents' =
                   Append(file_contents,
                          [path |-> e.path, content |-> r.value])
             /\ total_size' = Add64(total_size, e.metadata.len)
             /\ total_files' = total_files + 1
             /\ tree_structure' =
                   Append(tree_structure, TreeLine(e, CORNER, ""))
             /\ admitted_sizes' = Append(admitted_sizes, e.metadata.len)
    /\ Continue
    /\ UNCHANGED errors

\* ------------------------------------------------------------- output
\* Number of bytes of the White_Space character the string ends with, 0 if
\* it ends with none: U+0009..U+000D, U+0020, U+0085, U+00A0, U+1680,
\* U+2000..U+200A, U+2028, U+2029, U+202F, U+205F, U+3000.
TrailingSpace(s) ==
    LET n == Len(s) IN
    IF n >= 1 /\ s[n] \in {9, 10, 11, 12, 13, 32} THEN 1
    ELSE IF n >= 2 /\ s[n - 1] = 194 /\ s[n] \in {133, 160} THEN 2
    ELSE IF /\ n >= 3
            /\ \/ << s[n - 2], s[n - 1], s[n] >> = << 225, 154, 128 >>
               \/ /\ s[n - 2] = 226 /\ s[n - 1] = 128
                  /\ s[n] \in (128 .. 138) \cup {168, 169, 175}
               \/ << s[n - 2], s[n - 1], s[n] >> = << 226, 129, 159 >>
               \/ << s[n - 2], s[n - 1], s[n] >> = << 227, 128, 128 >>
         THEN 3
    ELSE 0

\* str::trim_end
RECURSIVE trim_end(_)
trim_end(s) ==
    IF TrailingSpace(s) = 0 THEN s
    ELSE trim_end(SubSeq(s, 1, Len(s) - TrailingSpace(s)))

Printed(kind) == Cardinality({i \in DOMAIN output : output[i].kind = kind})

RECURSIVE Concat(_)
\* .map(|(_, content)| content.as_str()).collect::<Vec<&str>>().join("")
Concat(contents) ==
    IF contents = << >> THEN << >>
    ELSE contents[1].content \o Concat(Tail(contents))

\* The connectors without their last character, the space.
CORNER_TRIMMED == "\\--"
TEE_TRIMMED == "|--"

\* What trim_end leaves of the last line of the tree. The "\n" goes; a
\* suffix ends in "]" and stops it there; else the white space the file
\* name ends in goes, and when nothing is left of the file name the space
\* of the connector goes too. The connector stops it, so that the lines
\* before the last are never reached.
TrimmedLine(l) ==
    IF l.suffix # "" THEN l
    ELSE IF trim_end(l.file_name) # << >>
    THEN [l EXCEPT !.file_name = trim_end(l.file_name)]
    ELSE [l EXCEPT !.file_name = << >>,
                   !.connector = IF l.connector = CORNER
                                 THEN CORNER_TRIMMED ELSE TEE_TRIMMED]

\* tree_structure.trim_end()
TrimmedTree(lines) ==
    [i \in DOMAIN lines |->
        IF i = Len(lines) THEN TrimmedLine(lines[i]) ELSE lines[i]]

\* The walker is exhausted; println!("{}", tree_structure.trim_end()).
PrintTree ==
    /\ pc = "walk"
    /\ visited >= 1
    /\ output' = Append(output, [stream |-> "stdout", kind |-> "tree",
                                 lines |-> TrimmedTree(tree_structure)])
    /\ entry' = NoEntry
    /\ pc' = "print_files"
    /\ UNCHANGED << args, verdict, overflow_checks, accumulators,
                    visited, failure >>

\* One pass of for (path, content) in &file_contents.
PrintFile ==
    /\ pc = "print_files"
    /\ Printed("file") < Len(file_contents)
    /\ LET f == file_contents[Printed("file") + 1] IN
       output' = Append(output, [stream |-> "stdout", kind |-> "file",
                                 path |-> f.path,
                                 text |-> trim_end(f.content)])
    /\ UNCHANGED << args, verdict, overflow_checks, accumulators,
                    entry, visited, pc,
                    failure >>

\* Mutant: the error loop does not wait for the file loop to end.
PrintError_early ==
    /\ pc = "print_files"
    /\ Printed("error") < Len(errors)
    /\ output' = Append(output, [stream |-> "stderr", kind |-> "error",
                                 error |-> errors[Printed("error") + 1]])
    /\ UNCHANGED << args, verdict, overflow_checks, accumulators,
                    entry, visited, pc,
                    failure >>

\* One pass of for error in &errors.
PrintError ==
    /\ \/ pc = "print_files" /\ Printed("file") = Len(file_contents)
       \/ pc = "print_errors"
    /\ Printed("error") < Len(errors)
    /\ output' = Append(output, [stream |-> "stderr", kind |-> "error",
                                 error |-> errors[Printed("error") + 1]])
    /\ pc' = "print_errors"
    /\ UNCHANGED << args, verdict, overflow_checks, accumulators,
                    entry, visited,
                    failure >>

PrintingDone ==
    /\ pc \in {"print_files", "print_errors"}
    /\ Printed("file") = Len(file_contents)
    /\ Printed("error") = Len(errors)

\* if args.report { .. }
PrintReport ==
    /\ PrintingDone
    /\ args.report
    /\ output' = Append(output, [stream |-> "stdout", kind |-> "report",
                                 files_analyzed |-> total_files,
                                 combined_content |-> Concat(file_contents)])
    /\ pc' = "done"
    /\ UNCHANGED << args, verdict, overflow_checks, accumulators,
                    entry, visited,
                    failure >>

\* cl100k_base().context("Failed to get BPE tokenizer")? fails.
TokenizerError ==
    /\ PrintingDone
    /\ args.report
    /\ pc' = "failed"
    /\ failure' = "Failed to get BPE tokenizer"
    /\ UNCHANGED << args, verdict, overflow_checks, accumulators,
                    entry, visited,
                    output >>

\* Ok(()) without a report.
Return ==
    /\ PrintingDone
    /\ ~ args.report
    /\ pc' = "done"
    /\ UNCHANGED << args, verdict, overflow_checks, accumulators,
                    entry, visited,
                    failure, output >>

\* println! or eprintln! cannot write (the stream is closed) and panics.
\* output holds what was written whole: the tree, a file block, an error
\* line or the report being written is not in it.
PrintPanics ==
    /\ \/ /\ \/ pc = "walk" /\ visited >= 1
             \/ pc = "print_files" /\ Printed("file") < Len(file_contents)
             \/ PrintingDone /\ args.report
          /\ failure' = "failed printing to stdout"
       \/ /\ \/ pc = "print_files" /\ Printed("file") = Len(file_contents)
             \/ pc = "print_errors"
          /\ Printed("error") < Len(errors)
          /\ failure' = "failed printing to stderr"
    /\ pc' = "panicked"
    /\ UNCHANGED << args, verdict, overflow_checks, accumulators, entry,
                    visited, output >>

Next ==
    \/ CurrentDir
    \/ CurrentDirError
    \/ WalkError
    \/ VisitRoot
    \/ VisitDirectory
    \/ VisitOther
    \/ FileMetadataError
    \/ FileOverLimit
    \/ FileSizePanic
    \/ FileClassifyError
    \/ FileNonText
    \/ FileReadError
    \/ FileAdmitted
    \/ PrintTree
    \/ PrintFile
    \/ PrintError
    \/ PrintReport
    \/ TokenizerError
    \/ PrintPanics
    \/ Return

Spec == Init /\ [][Next]_vars

\* ============================================================== claims
Last(s) == s[Len(s)]

RECURSIVE Sum(_)
Sum(s) == IF s = << >> THEN 0 ELSE s[1] + Sum(Tail(s))

\* The step runs the loop body on entry'.
Took == visited' = visited + 1
FileStep == Took /\ entry'.kind = "file"

\* What the limit checks answer in this step for entry'.
Decision == admit(total_files, total_size, entry'.metadata.len, args,
                  overflow_checks')

totals == << total_files, total_size >>

\* Whether the first 1024 bytes of each file image hold a NUL byte.
NulSampled ==
    [b \in Images |-> \E i \in 1 .. Min(Len(b), 1024) : b[i] = 0]

\* ------------------------------------------------------------------ C1
\* C1: in every reachable state files_admitted <= max_files and
\* bytes_admitted <= max_total_size.
C1_WithinCeilings ==
    /\ total_files <= args.max_files
    /\ total_size <= args.max_total_size

\* Both ceilings are reached exactly, by two admitted files.
C1_Witness ==
    /\ total_files = 2
    /\ total_files = args.max_files
    /\ total_size > 0
    /\ total_size = args.max_total_size

\* ------------------------------------------------------------------ C2
\* The rule chain as the claim states it, on the integers.
StatedDecision(files, size, file_size, a) ==
    IF files >= a.max_files THEN "file-count-limit"
    ELSE IF size + file_size > a.max_total_size THEN "total-size-limit"
    ELSE IF file_size > a.max_file_size THEN "per-file-size-limit"
    ELSE "Admit"

\* C2: for every running total and every candidate size the limit checks
\* answer file-count-limit, else total-size-limit, else
\* per-file-size-limit, else Admit, the cumulative rule being
\* bytes_admitted + candidate_size > max_total_size.
C2_DecisionAsStated ==
    pc = "walk" =>
       \A file_size \in U64 : \A m \in Profiles(file_size) :
          admit(total_files, total_size, file_size, args, m)
             = StatedDecision(total_files, total_size, file_size, args)

\* ------------------------------------------------------------------ C3
\* C3: bytes_admitted is the sum of the sizes measured for the stored
\* files.
C3_TotalIsSum == total_size = Sum(admitted_sizes)

\* ------------------------------------------------------------------ C4
\* C4: no stored file has a measured size above max_file_size.
C4_NoStoredFileTooLarge ==
    \A i \in DOMAIN admitted_sizes : admitted_sizes[i] <= args.max_file_size

\* A file of exactly max_file_size is stored, and another one was turned
\* away for its size.
C4_Witness ==
    /\ args.max_file_size > 0
    /\ \E i \in DOMAIN admitted_sizes :
          admitted_sizes[i] = args.max_file_size
    /\ \E j \in DOMAIN errors : errors[j].reason = "per-file-size-limit"

\* ------------------------------------------------------------------ C5
\* C5: when fetching the size of a file fails, one read-error SkipRecord is
\* recorded for it and the walk goes on.
C5_SizeErrorIsSkipped ==
    [][(FileStep /\ ~ entry'.metadata.ok) =>
          /\ errors' = Append(errors, SkipRecord(entry', "read-error"))
          /\ pc' = "walk"]_vars

\* ------------------------------------------------------------------ C6
\* C6: when the Classifier fails on a file that passed the limit checks,
\* one classification-error SkipRecord is recorded, the totals stay and
\* the walk goes on.
C6_ClassifyErrorIsSkipped ==
    [][FileClassifyError =>
          /\ errors' =
                Append(errors, SkipRecord(entry', "classification-error"))
          /\ UNCHANGED totals
          /\ pc' = "walk"]_vars

\* ------------------------------------------------------------------ C7
\* C7: a file rejected by one of the three limits appends exactly one
\* SkipRecord with that reason and changes neither the totals, nor the
\* stored contents, nor the tree; and a SkipRecord with a limit reason is
\* only ever appended that way.
C7_RejectionFrame ==
    [][/\ (FileStep /\ entry'.metadata.ok /\ Decision \in LimitReasons) =>
             /\ errors' = Append(errors, SkipRecord(entry', Decision))
             /\ UNCHANGED << totals, file_contents, tree_structure >>
       /\ (errors' # errors /\ Last(errors').reason \in LimitReasons) =>
             /\ FileStep
             /\ errors' = Append(errors, Last(errors'))
             /\ Last(errors').path = entry'.path
             /\ UNCHANGED << totals, file_contents, tree_structure >>
      ]_vars

\* A file was just rejected by a limit after another one had been admitted.
C7_Witness ==
    /\ pc = "walk"
    /\ entry.kind = "file"
    /\ total_files >= 1
    /\ errors # << >>
    /\ Last(errors).path = entry.path
    /\ Last(errors).reason \in LimitReasons

\* ------------------------------------------------------------------ C8
\* C8: a file that passes the limits and is classified text but cannot be
\* read as text records one read-error SkipRecord and leaves the totals,
\* the stored contents and the tree as they were; the totals change only
\* in a step that stores the content it has read.
C8_CommitAfterRead ==
    [][/\ (/\ FileStep /\ entry'.metadata.ok /\ Decision = "Admit"
           /\ failure' = ""
           /\ Classified[entry'.bytes] = Ok(TRUE)
           /\ ~ Contents[entry'.bytes].ok) =>
             /\ errors' = Append(errors, SkipRecord(entry', "read-error"))
             /\ UNCHANGED << totals, file_contents, tree_structure >>
       /\ (errors' # errors /\ Last(errors').reason = "read-error") =>
             /\ errors' = Append(errors, SkipRecord(entry', "read-error"))
             /\ UNCHANGED << totals, file_contents, tree_structure >>
       /\ (totals' # totals) =>
             /\ FileStep
             /\ Contents[entry'.bytes].ok
             /\ file_contents' =
                   Append(file_contents,
                          [path |-> entry'.path, content |-> entry'.bytes])
      ]_vars

\* A file that is no UTF-8 was just skipped after another one had been
\* admitted.
C8_Witness ==
    /\ pc = "walk"
    /\ entry.kind = "file"
    /\ ~ Contents[entry.bytes].ok
    /\ total_files >= 1
    /\ errors # << >>
    /\ Last(errors) = SkipRecord(entry, "read-error")

\* ------------------------------------------------------------------ C9
\* C9: once max_files files are admitted, every later file entry is
\* rejected with file-count-limit whatever its size and content and the
\* stored contents do not change any more; before that a text file that
\* qualifies and can be read is stored, so that the stored files are the
\* first max_files qualifying ones, never more; and a run that completes
\* prints exactly max_files content blocks.
C9_EveryLaterFileRejected ==
    /\ [][/\ (FileStep /\ total_files = args.max_files) =>
                /\ errors' =
                      Append(errors, SkipRecord(entry', "file-count-limit"))
                /\ file_contents' = file_contents
                /\ pc' = "walk"
          /\ (/\ FileStep
              /\ total_files < args.max_files
              /\ entry'.metadata.ok
              /\ StatedDecision(total_files, total_size, entry'.metadata.len,
                                args) = "Admit"
              /\ Classified[entry'.bytes] = Ok(TRUE)
              /\ Contents[entry'.bytes].ok) =>
                \/ /\ Len(file_contents') = Len(file_contents) + 1
                   /\ file_contents'[Len(file_contents')].path = entry'.path
                \/ pc' = "failed"
                \/ errors' = Append(errors, SkipRecord(entry', "read-error"))
         ]_vars
    /\ [](Len(file_contents) <= args.max_files)
    /\ [](pc = "done" /\ total_files = args.max_files =>
             Printed("file") = args.max_files)

\* ----------------------------------------------------------------- C10
\* What the claim says a file with a NUL byte produces.
NonTextEffect ==
    /\ tree_structure' =
          Append(tree_structure, TreeLine(entry', CORNER, " [Non-text file]"))
    /\ UNCHANGED << totals, file_contents, errors >>

\* C10 as stated: every file with a NUL byte in its first 1024 bytes gets
\* the annotated tree line, no stored content, no SkipRecord and no change
\* of the totals.
C10_NulFileIsAnnotated ==
    [][(FileStep /\ NulSampled[entry'.bytes]) => NonTextEffect]_vars

\* C10, amended: a file with a NUL byte in its first 1024 bytes whose size
\* is fetched, that passes the three limit checks and that the Classifier
\* reads gets the annotated tree line, no stored content, no SkipRecord and
\* no change of the totals.
C10_AdmissibleNulFileIsAnnotated ==
    [][(/\ FileStep /\ NulSampled[entry'.bytes]
        /\ entry'.metadata.ok /\ Decision = "Admit"
        /\ failure' = "") => NonTextEffect]_vars

\* A file whose only NUL byte is the last one sampled was just given the
\* annotated line, after another file had been admitted.
C10_Witness ==
    /\ pc = "walk"
    /\ entry.kind = "file"
    /\ NulSampled[entry.bytes]
    /\ total_files >= 1
    /\ Last(tree_structure) = TreeLine(entry, CORNER, " [Non-text file]")


\* ----------------------------------------------------------------- C11
\* A tree line of a file (not the root's) with no suffix.
IsPlainFileLine(l) ==
    l.connector = CORNER /\ l.suffix = "" /\ l.name # RootEntry.path

PlainFileLines == SelectSeq(tree_structure, IsPlainFileLine)

\* C11: every entry has produced at most one tree line, and the plain tree
\* lines of files are the stored files, in the same order.
C11_PlainLinesAreStoredFiles ==
    /\ Len(tree_structure) <= visited
    /\ \A i, j \in DOMAIN tree_structure :
          tree_structure[i].name = tree_structure[j].name => i = j
    /\ \A i \in DOMAIN tree_structure : tree_structure[i].name < visited
    /\ [i \in DOMAIN PlainFileLines |-> PlainFileLines[i].name]
          = [i \in DOMAIN file_contents |-> file_contents[i].path]

\* A binary file got its annotated line, then a text file was stored.
C11_Witness ==
    /\ Len(file_contents) = 1
    /\ file_contents[1].path = 2
    /\ Len(tree_structure) = 3
    /\ tree_structure[2].suffix = " [Non-text file]"
    /\ tree_structure[3] = TreeLine(entry, CORNER, "")


\* ----------------------------------------------------------------- C12
IsAnnotatedLine(l) == l.suffix = " [Non-text file]"
IsDirectoryLine(l) == l.connector = TEE \/ l.name = RootEntry.path

\* C12: when the walk is over, the stored files, the files excluded as
\* binary, the SkipRecords and the directories (the root among them) add up
\* to the entries the traversal yielded, whatever their kind.
C12_EveryEntryAccounted ==
    pc \in {"print_files", "print_errors", "done"} =>
       Len(file_contents)
          + Len(SelectSeq(tree_structure, IsAnnotatedLine))
          + Len(errors)
          + Len(SelectSeq(tree_structure, IsDirectoryLine))
       = visited


\* ----------------------------------------------------------------- C13
\* The place of each kind of output in the stated order.
Rank == [k \in {"tree", "file", "error", "report"} |->
            CASE k = "tree" -> 1 [] k = "file" -> 2
              [] k = "error" -> 3 [] k = "report" -> 4]

IsFileBlock(o) == o.kind = "file"
IsErrorLine(o) == o.kind = "error"
IsReport(o) == o.kind = "report"

\* C13: nothing is written before the walk is over; then the tree comes
\* first and once, as it was built but for the white space it ends in,
\* the content blocks follow in the order of the stored
\* files, the skip lines follow them in the order they were recorded, and
\* the report comes last, only if it was requested and only after all of
\* them.
C13_OutputOrder ==
    /\ output # << >> =>
          /\ pc \in {"print_files", "print_errors", "done", "failed",
                     "panicked"}
          /\ pc = "failed" => failure = "Failed to get BPE tokenizer"
          /\ pc = "panicked" =>
                failure \in {"failed printing to stdout",
                             "failed printing to stderr"}
          /\ output[1].kind = "tree"
          /\ LET printed == output[1].lines
                 n == Len(tree_structure) IN
             /\ Len(printed) = n
             /\ \A i \in 1 .. n - 1 : printed[i] = tree_structure[i]
             /\ printed[n].name = tree_structure[n].name
             /\ printed[n].indent = tree_structure[n].indent
             /\ printed[n].suffix = tree_structure[n].suffix
             /\ printed[n].suffix = "" =>
                   TrailingSpace(printed[n].file_name) = 0
             /\ printed[n].file_name =
                   SubSeq(tree_structure[n].file_name, 1,
                          Len(printed[n].file_name))
             /\ \A k \in Len(printed[n].file_name) + 1 ..
                         Len(tree_structure[n].file_name) :
                   tree_structure[n].file_name[k] \in {9, 10, 11, 12, 13, 32}
    /\ pc \in {"print_files", "print_errors", "done"} => output # << >>
    /\ \A i, j \in DOMAIN output :
          i < j => /\ output[j].kind # "tree"
                   /\ Rank[output[i].kind] <= Rank[output[j].kind]
                   /\ output[i].kind # "report"
    /\ LET blocks == SelectSeq(output, IsFileBlock)
           lines == SelectSeq(output, IsErrorLine)
           reports == SelectSeq(output, IsReport) IN
       /\ Len(blocks) <= Len(file_contents)
       /\ \A k \in DOMAIN blocks :
             /\ blocks[k].path = file_contents[k].path
             /\ blocks[k].text = trim_end(file_contents[k].content)
       /\ lines = [k \in DOMAIN lines |->
                      [stream |-> "stderr", kind |-> "error",
                       error |-> errors[k]]]
       /\ Len(lines) <= Len(errors)
       /\ lines # << >> => Len(blocks) = Len(file_contents)
       /\ reports # << >> =>
             /\ args.report
             /\ Len(blocks) = Len(file_contents)
             /\ Len(lines) = Len(errors)
       /\ pc = "done" =>
             /\ Len(blocks) = Len(file_contents)
             /\ Len(lines) = Len(errors)
             /\ Len(reports) = IF args.report THEN 1 ELSE 0

\* A complete run wrote the tree, one content block, one skip line and
\* the report.
C13_Witness ==
    /\ pc = "done"
    /\ Len(output) = 4
    /\ output[2].kind = "file"
    /\ output[3].kind = "error"
    /\ output[4].kind = "report"


\* ------------------------------------------- is_text_file on its own
\* Byte values on both sides of every comparison of the test: NUL, the
\* neighbours of the three excepted bytes, the last value below 0x20, the
\* first not below it, DEL and values with the high bit set.
SampleBytes == {0, 8, 9, 10, 13, 14, 31, 32, 127, 128, 255}

ShortImages == UNION {[1 .. n -> SampleBytes] : n \in 0 .. MaxShortLen}

\* Files that end around the end of the buffer, in a letter or in NUL.
LongImages ==
    {Rep(65, n) \o << b >> : n \in (BUFFER_LEN - 2) .. BUFFER_LEN,
                              b \in {0, 65}}

ClassifierImages == ShortImages \cup LongImages

\* is_text_file is entered with the path of some regular file.
InitClassifier ==
    /\ args = [report |-> FALSE, max_file_size |-> 0, max_total_size |-> 0,
               max_files |-> 0]
    /\ overflow_checks = "unknown"
    /\ total_files = 0
    /\ total_size = 0
    /\ file_contents = << >>
    /\ tree_structure = << >>
    /\ errors = << >>
    /\ entry \in [path : {1}, kind : {"file"}, depth : {1},
                  metadata : {[ok |-> TRUE, len |-> 0]},
                  bytes : ClassifierImages, file_name : {<< 97 >>}]
    /\ visited = 1
    /\ pc = "open"
    /\ failure = ""
    /\ output = << >>
    /\ admitted_sizes = << >>
    /\ verdict = << >>

Returns(result) ==
    /\ verdict' = << result >>
    /\ pc' = "returned"
    /\ UNCHANGED << args, overflow_checks, accumulators, entry, visited,
                    failure, output >>

\* File::open(path) ... ? fails.
OpenFails ==
    /\ pc = "open"
    /\ Returns(is_text_file(entry.bytes, "open_failed"))

\* File::open(path) succeeds.
Opened ==
    /\ pc = "open"
    /\ pc' = "read"
    /\ UNCHANGED << args, verdict, overflow_checks, accumulators, entry,
                    visited, failure, output >>

\* file.read(&mut buffer) ... ? fails.
ReadFails ==
    /\ pc = "read"
    /\ Returns(is_text_file(entry.bytes, "read_failed"))

\* file.read(&mut buffer) fills the buffer; the bytes read are tested.
Sampled ==
    /\ pc = "read"
    /\ Returns(is_text_file(entry.bytes, "ok"))

NextClassifier == OpenFails \/ Opened \/ ReadFails \/ Sampled

SpecClassifier == InitClassifier /\ [][NextClassifier]_vars

\* ----------------------------------------------------------------- C15
\* C15: when is_text_file answers, the answer is "text" exactly when none
\* of the first min(length, 1024) bytes of the file is below 0x20 other
\* than 0x09, 0x0A and 0x0D. So an empty file is text, bytes from 0x80 up
\* are accepted, and a control byte at offset 1024 or later is not seen.
C15_SampleDecides ==
    \A k \in DOMAIN verdict :
       verdict[k].ok =>
          LET bytes == entry.bytes
              n == IF Len(bytes) < 1024 THEN Len(bytes) ELSE 1024
              isText == verdict[k].value IN
          /\ isText <=> \A i \in 1 .. n :
                           bytes[i] >= 32 \/ bytes[i] \in {9, 10, 13}
          /\ bytes = << >> => isText
          /\ (\A i \in 1 .. n : bytes[i] >= 128) => isText
          /\ (\A i \in DOMAIN bytes : bytes[i] < 32 => i > 1024) => isText

\* A file whose only control byte is the NUL at offset 1024 was found to
\* be text.
C15_Witness ==
    /\ pc = "returned"
    /\ Len(entry.bytes) = 1025
    /\ entry.bytes[1025] = 0
    /\ verdict = << Ok(TRUE) >>


\* ----------------------------------------------------------------- C16
\* C16: a step on a directory other than the root appends one line for it
\* to the tree, whatever the totals and the ceilings are, leaves the two
\* totals, the stored contents and the skip records as they were and goes
\* on with the walk; and as long as the walk goes on a directory can be
\* taken.
C16_DirectoryOnlyDrawsLine ==
    /\ [][Took /\ entry'.kind = "dir" =>
             /\ tree_structure' =
                   Append(tree_structure, TreeLine(entry', TEE, ""))
             /\ UNCHANGED << totals, file_contents, errors >>
             /\ pc' = "walk"]_vars
    /\ [](pc = "walk" /\ visited \in 1 .. MaxEntries => ENABLED VisitDirectory)

\* A directory was drawn after the file count had reached its ceiling.
C16_Witness ==
    /\ entry.kind = "dir"
    /\ total_files >= 1
    /\ total_files = args.max_files
    /\ Last(tree_structure) = TreeLine(entry, TEE, "")


\* ----------------------------------------------------------------- C17
\* C17: no step decreases files_admitted or bytes_admitted, and a step
\* that changes either of them is the admission of a file, which adds 1 to
\* the first and the size of the file to the second.
C17_TotalsOnlyGrowByAdmission ==
    [][/\ total_files' >= total_files
       /\ total_size' >= total_size
       /\ totals' # totals =>
             /\ FileStep
             /\ Len(file_contents') = Len(file_contents) + 1
             /\ total_files' = total_files + 1
             /\ total_size' = total_size + entry'.metadata.len]_vars


\* ----------------------------------------------------------------- C18
\* Some file met earlier was turned away for the total size or for its
\* own size.
SizeRejectedBefore ==
    \E j \in DOMAIN errors :
       errors[j].reason \in {"total-size-limit", "per-file-size-limit"}

\* The size of the file was measured and fits: files_admitted <
\* max_files, bytes_admitted + size <= max_total_size, size <=
\* max_file_size.
Fits(e) ==
    /\ e.metadata.ok
    /\ total_files < args.max_files
    /\ total_size + e.metadata.len <= args.max_total_size
    /\ e.metadata.len <= args.max_file_size

\* C18: after a file was turned away for the total size or for its own
\* size the walk goes on, and a later file that fits, is text and can be
\* read is admitted: the step on it stores its content, unless opening or
\* reading it fails. While files_admitted is below max_files such a step
\* is possible.
C18_RejectionNotAbsorbing ==
    /\ [][/\ FileStep
          /\ SizeRejectedBefore
          /\ Fits(entry')
          /\ Classified[entry'.bytes] = Ok(TRUE)
          /\ Contents[entry'.bytes].ok
          => \/ /\ file_contents' =
                      Append(file_contents,
                             [path |-> entry'.path,
                              content |-> Contents[entry'.bytes].value])
                /\ total_files' = total_files + 1
                /\ errors' = errors
                /\ pc' = "walk"
             \/ /\ pc' = "failed"
                /\ failure' = "Error checking if file is text"
             \/ /\ errors' = Append(errors, SkipRecord(entry', "read-error"))
                /\ pc' = "walk"]_vars
    /\ [](/\ pc = "walk"
          /\ visited \in 1 .. MaxEntries
          /\ SizeRejectedBefore
          /\ total_files < args.max_files
          => ENABLED FileAdmitted)

\* The first file was turned away for a size limit and the second one is
\* stored: the stored files are not the first files of the walk.
C18_Witness ==
    /\ Len(errors) = 1
    /\ errors[1].path = 1
    /\ errors[1].reason \in {"total-size-limit", "per-file-size-limit"}
    /\ Len(file_contents) = 1
    /\ file_contents[1].path = 2
    /\ entry.path = 2


\* ----------------------------------------------------------------- C19
\* C19: files_admitted is the number of stored (path, content) pairs, and
\* the "Files analyzed" figure of a printed report is the number of
\* content blocks printed.
C19_CountIsStoredPairs ==
    /\ total_files = Len(file_contents)
    /\ \A i \in DOMAIN output :
          output[i].kind = "report" =>
             output[i].files_analyzed = Printed("file")

\* A report was printed after two content blocks.
C19_Witness ==
    /\ pc = "done"
    /\ Printed("file") = 2
    /\ Last(output).kind = "report"
    /\ Last(output).files_analyzed = 2


\* ----------------------------------------------------------------- C20
\* C20: for every bytes_admitted, candidate size and max_total_size of 64
\* bits the sum bytes_admitted + candidate_size is computed without
\* wrapping: the check of a measured file ends in a decision, a file whose
\* size would bring the true total above max_total_size is not admitted,
\* and bytes_admitted never becomes smaller.
C20_SumNeverWraps ==
    [][FileStep /\ entry'.metadata.ok /\ total_files < args.max_files =>
          /\ pc' # "panicked"
          /\ total_size + entry'.metadata.len > args.max_total_size =>
                /\ file_contents' = file_contents
                /\ total_size' = total_size
          /\ total_size' >= total_size]_vars

====
